---- MODULE Spec2Model ----
(***************************************************************************)
(* A state-machine model of the launcher core of miracle-client:           *)
(*   - the mod dependency resolver  (ipc/dependency_resolver.rs)           *)
(*   - the acquisition pipeline and classpath assembly (minecraft/mod.rs)  *)
(*   - the authentication chain     (auth/mod.rs)                          *)
(* The three subsystems share no state, so each has a specification of its *)
(* own (DepSpec, AcqSpec, AuthSpec, RuleSpec); the variables of the other  *)
(* subsystems stay at their initial values.                                *)
(***************************************************************************)
EXTENDS Integers, Sequences, FiniteSets, TLC

VARIABLES
    \* ---- dependency resolver ----
    mods,        \* the mods directory: file name -> archive on disk
    dpc,         \* position of resolve_and_install_dependencies
    todo,        \* resolution.missing_dependencies not yet iterated in this pass
    passInst,    \* `installed` of the running pass (elements of the Vec)
    allInst,     \* `installed` of the enclosing (earlier) passes
    failedIds,   \* ids whose install_dependency call returned Err in this call
    wire,        \* the requests of the last loop iteration, after the delay (if
                 \* any) that preceded them
    disabledMods,\* the files of the mods directory named <name>.jar.disabled
    \* ---- acquisition pipeline / classpath ----
    platform,    \* the operating system the launcher runs on
    libraries,   \* VersionDetails.libraries of the requested version
    fabricLibs,  \* FabricProfile.libraries of the requested loader
    disk,        \* install directory: path -> "absent" | "good" | "bad"
    profileSaved,\* the loader profile document exists on disk
    qpc,         \* position of launch_game's acquisition sequence
    runs,        \* acquisition runs started so far
    libIdx,      \* index of the library the loop is at
    fetched,     \* paths a download request was sent for in this run
    failedAt,    \* the path whose download made the run fail, or NoPath
    failErr,     \* the MinecraftError variant the run failed with, or "none"
    answers,     \* <<path, outcome>> of every download request sent in this run
    classpath,   \* result of the last build_classpath, or <<>>
    \* ---- authentication chain ----
    apc,         \* position of poll_and_authenticate / complete_authentication
    aresult,     \* what the call returned (or that it panicked)
    interval,    \* the provider's polling interval handed to the call
    wait,        \* seconds slept before the pending poll request
    polls,       \* poll requests sent so far
    pendingRun,  \* how many of them were answered authorization_pending in a row
    lastResp,    \* the last poll response body
    hops,        \* the hops of the chain requested so far, in order
    msRefresh,   \* TokenResponse.refresh_token of the provider token ("" is None)
    flow,        \* which entry point was called: "device" or "refresh"
    token,       \* the token the chain obtained last ("" before the first)
    hopLog,      \* <<token sent, answer>> of every hop in `hops`, in order
    dresp,       \* the provider's answer to the device-code request
    dresult,     \* what start_device_code_flow returned, "none" before the call
    \* ---- library rule evaluation ----
    rlib,        \* a library entry
    rres,        \* should_use_library(rlib), once evaluated
    \* ---- game process supervisor ----
    procs,       \* launched process -> "unborn" | "alive" | "exited"
    spc,         \* launched process -> position of its monitor task
    game_process,\* AppState.game_process: the stored child, 0 for None
    supIdle,     \* launched process -> launch_state idle events of its monitor
    stopIdle,    \* launched process -> idle events of the stop_game calls that killed it
    stops,       \* stop_game calls so far
    auth_request,  \* content of auth_request.json, "none" when there is no file
    auth_response, \* content of auth_response.json, "none" when there is no file
    pollers,     \* poll_device_flow_for_mod tasks spawned and not yet finished
    requests,    \* request files the game has written so far
    held,        \* launched process -> the request its monitor has read and not yet
                 \* handled, as <<number of the request, content>>
    flows,       \* request number -> start_device_code_flow calls made for it
    responses,   \* writes of auth_response.json so far
    \* ---- launch_game ----
    lpc,         \* position of the launch_game call
    lresult,     \* what the call returned: "none", "Ok" or the error
    javaPath,    \* the javaPath argument: "none", or whether the file it names exists
    javaHome,    \* %JAVA_HOME%\bin\java.exe exists
    commonJava,  \* which of the common_paths of find_java exist
    whereJava,   \* `where java` succeeds and prints a line
    java,        \* the executable find_java returned
    depsRet,     \* what resolve_and_install_dependencies returned to launch_game
    ltrace,      \* the steps of the call that have run, in order
    \* ---- version comparison ----
    latest,      \* a version string, as its dot-separated parts
    current,     \* a version string, as its dot-separated parts
    compared,    \* is_newer_version(latest, current) has been evaluated
    newer        \* its result

depVars  == <<mods, dpc, todo, passInst, allInst, failedIds, wire, disabledMods>>
acqVars  == <<platform, libraries, fabricLibs, disk, profileSaved, qpc, runs,
              libIdx, fetched, failedAt, failErr, answers, classpath>>
authVars == <<apc, aresult, interval, wait, polls, pendingRun, lastResp, hops,
              msRefresh, flow, token, hopLog, dresp, dresult>>
ruleVars == <<rlib, rres>>
reqLog   == <<held, flows, responses>>
supVars  == <<procs, spc, game_process, supIdle, stopIdle, stops, auth_request,
              auth_response, pollers, requests, reqLog>>
launchVars == <<lpc, lresult, javaPath, javaHome, commonJava, whereJava, java,
                depsRet, ltrace>>
verVars  == <<latest, current, compared, newer>>
vars     == <<depVars, acqVars, authVars, ruleVars, supVars, launchVars, verVars>>

\* What a step of one subsystem leaves alone: the other subsystems
OtherThanDep  == UNCHANGED <<acqVars, authVars, ruleVars, supVars, launchVars, verVars>>
OtherThanAcq  == UNCHANGED <<depVars, authVars, ruleVars, supVars, launchVars, verVars>>
OtherThanAuth == UNCHANGED <<depVars, acqVars, ruleVars, supVars, launchVars, verVars>>
OtherThanRule == UNCHANGED <<depVars, acqVars, authVars, supVars, launchVars, verVars>>
OtherThanSup  == UNCHANGED <<depVars, acqVars, authVars, ruleVars, launchVars, verVars>>
OtherThanLaunch == UNCHANGED <<depVars, acqVars, authVars, ruleVars, verVars>>
OtherThanVer  == UNCHANGED <<depVars, acqVars, authVars, ruleVars, supVars, launchVars>>

(***************************************************************************)
(*                         DEPENDENCY RESOLVER                             *)
(***************************************************************************)

\* Bound: number of file names the mods directory can hold.
NumFiles == 3

FileNames == 1..NumFiles

\* Package identifiers of real mods, and the three runtime pseudo-dependencies.
ModIds    == {"app", "foo", "bar"}
PseudoIds == {"minecraft", "java", "fabricloader"}
Reqs      == {">=1.0", "*"}

\* FabricModJson.depends of the archives of the model, per package: app needs
\* foo (under either requirement), foo needs bar, and bar may need foo back.
DependsChoices(id) ==
    CASE id = "app" -> {{},
                        {<<"foo", ">=1.0">>, <<"minecraft", "*">>, <<"java", "*">>,
                         <<"fabricloader", "*">>},
                        {<<"foo", "*">>}}
      [] id = "foo" -> {{}, {<<"bar", "*">>, <<"minecraft", "*">>}}
      [] OTHER      -> {{}, {<<"foo", "*">>}}

\* FabricModJson.recommends of the archives of the model: app may recommend bar.
RecommendsChoices(id) ==
    IF id = "app" THEN {{}, {<<"bar", "*">>, <<"java", "*">>}} ELSE {{}}

\* No file under that name.
NoFile == [present |-> FALSE, parses |-> FALSE, id |-> "", depends |-> {},
           recommends |-> {}, small |-> FALSE]

\* A *.jar file without a readable fabric.mod.json (not a zip, no manifest, bad JSON).
Unparseable == [present |-> TRUE, parses |-> FALSE, id |-> "", depends |-> {},
                recommends |-> {}, small |-> FALSE]

\* A file of a few hundred bytes (an error page, a truncated body): below the
\* minimum size download_mod_to_dir accepts, and no archive.
Corrupt == [present |-> TRUE, parses |-> FALSE, id |-> "", depends |-> {},
            recommends |-> {}, small |-> TRUE]

\* The archives with a parseable fabric.mod.json (the one with recommendations
\* is the one that also names the pseudo-dependencies).
ModArchives ==
    UNION {{a \in {[present |-> TRUE, parses |-> TRUE, id |-> i, depends |-> d,
                    recommends |-> r, small |-> FALSE] :
                       d \in DependsChoices(i), r \in RecommendsChoices(i)} :
               a.recommends # {} => <<"minecraft", "*">> \in a.depends} : i \in ModIds}

Archives == ModArchives \cup {Unparseable, Corrupt}

\* parse_mod_metadata that takes every file for an archive with metadata
parse_mod_metadata_ok_any(entry) == entry.present

\* parse_mod_metadata(jar_path) is Ok
parse_mod_metadata_ok(entry) == entry.present /\ entry.parses

\* get_installed_mod_ids that reports an id for every file name
get_installed_mod_ids_every_name(dir) == {dir[f].id : f \in FileNames}

\* get_installed_mod_ids(mods_dir): ids of the jars whose metadata parses
get_installed_mod_ids(dir) ==
    {dir[f].id : f \in {g \in FileNames : parse_mod_metadata_ok(dir[g])}}

\* ModDependency { mod_id, version_requirement }
ModDependency(p) == [mod_id |-> p[1], version_requirement |-> p[2]]

\* all_required_deps without the `continue` on the pseudo-dependencies
all_required_deps_with_pseudo(dir) ==
    {ModDependency(p) :
        p \in UNION {dir[f].depends :
                        f \in {g \in FileNames : parse_mod_metadata_ok(dir[g])}}}

\* resolve_dependencies: the all_required_deps HashSet (pseudo-dependencies skipped)
all_required_deps(dir) ==
    {ModDependency(p) :
        p \in {q \in UNION {dir[f].depends :
                        f \in {g \in FileNames : parse_mod_metadata_ok(dir[g])}} :
                  q[1] \notin PseudoIds}}

\* resolve_dependencies(mods_dir)
resolve_dependencies(dir) ==
    [missing_dependencies |->
        {dep \in all_required_deps(dir) : dep.mod_id \notin get_installed_mod_ids(dir)},
     installed_mods |-> get_installed_mod_ids(dir)]

\* What one install_dependency call can do: fail (any Err return), or write the
\* downloaded bytes to mods_dir/<filename>; file name and bytes are the registry's.
\* The files the registry serves are the dependencies' archives (those of foo and
\* bar, whichever was asked for) or no archive at all.
\* `requests` is how many of the three requests of the call were sent: a call
\* that fails at the project lookup has sent one, and so on.
InstallOutcomes ==
    {[ok |-> FALSE, file |-> 1, archive |-> NoFile, requests |-> n] : n \in 1..3}
        \cup {[ok |-> TRUE, file |-> f, archive |-> a, requests |-> 3] :
                 f \in FileNames, a \in {b \in Archives : b.id # "app"}}

\* The requests of install_dependency in the order they are sent
RegistryRequests == <<"project", "versions", "file">>

\* What goes over the wire from the delay that ended the previous loop iteration
\* (if there was one in this call) to the end of an install_dependency call
\* that sends n requests
wire_of(before, n) ==
    (IF before = <<>> THEN <<>> ELSE <<"delay">>) \o SubSeq(RegistryRequests, 1, n)

\* install_dependency(mod_id, ..): the directory after the call
install_dependency(dir, o) ==
    IF o.ok THEN [dir EXCEPT ![o.file] = o.archive] ELSE dir

\* Entry of resolve_and_install_dependencies up to its first suspension point:
\* resolve, return Ok(empty) when nothing is missing, otherwise start the loop.
EnterPass(acc) ==
    LET resolution == resolve_dependencies(mods) IN
    /\ allInst' = acc
    /\ passInst' = {}
    /\ IF resolution.missing_dependencies = {}
          THEN dpc' = "done" /\ todo' = {}
          ELSE dpc' = "loop" /\ todo' = resolution.missing_dependencies

\* The caller invokes resolve_and_install_dependencies(mods_dir, version).
DepCall ==
    /\ dpc = "idle"
    /\ EnterPass({})
    /\ UNCHANGED <<mods, failedIds, wire, disabledMods>>
    /\ OtherThanDep

\* The loop iteration with `?` on install_dependency: the first Err ends the call
InstallStep_aborts ==
    /\ dpc = "loop"
    /\ \E dep \in todo, o \in InstallOutcomes :
        /\ mods' = install_dependency(mods, o)
        /\ passInst' = IF o.ok THEN passInst \cup {dep.mod_id} ELSE passInst
        /\ todo' = IF o.ok THEN todo \ {dep} ELSE {}
        /\ dpc' = IF o.ok THEN dpc ELSE "done"
        /\ failedIds' = IF o.ok THEN failedIds ELSE failedIds \cup {dep.mod_id}
        /\ wire' = wire_of(wire, o.requests)
    /\ UNCHANGED <<allInst, disabledMods>>
    /\ OtherThanDep

\* One iteration of `for dep in resolution.missing_dependencies`.
InstallStep ==
    /\ dpc = "loop"
    /\ \E dep \in todo, o \in InstallOutcomes :
        /\ mods' = install_dependency(mods, o)
        /\ passInst' = IF o.ok THEN passInst \cup {dep.mod_id} ELSE passInst
        /\ todo' = todo \ {dep}
        /\ failedIds' = IF o.ok THEN failedIds ELSE failedIds \cup {dep.mod_id}
        /\ wire' = wire_of(wire, o.requests)
    /\ UNCHANGED <<dpc, allInst, disabledMods>>
    /\ OtherThanDep

\* After the loop: `if !installed.is_empty()` the function calls itself.
Recurse ==
    /\ dpc = "loop"
    /\ todo = {}
    /\ passInst # {}
    /\ EnterPass(allInst \cup passInst)
    /\ UNCHANGED <<mods, failedIds, wire, disabledMods>>
    /\ OtherThanDep

\* After the loop with nothing installed: return Ok(installed).
ReturnPass ==
    /\ dpc = "loop"
    /\ todo = {}
    /\ passInst = {}
    /\ dpc' = "done"
    /\ UNCHANGED <<mods, todo, passInst, allInst, failedIds, wire, disabledMods>>
    /\ OtherThanDep

\* Initial mods directories: any archives under the first two names.
DepInit ==
    /\ mods \in {d \in [FileNames -> Archives \cup {NoFile}] :
                    \A f \in FileNames : f > 2 => d[f] = NoFile}
    /\ dpc = "idle"
    /\ todo = {}
    /\ passInst = {}
    /\ allInst = {}
    /\ failedIds = {}
    /\ wire = <<>>
    /\ disabledMods = [f \in FileNames |-> NoFile]

\* The packages the user toggles in the model
ToggleIds == {"foo", "bar"}

\* toggle_mod's should_toggle: the file opens as an archive whose
\* fabric.mod.json parses and carries the id asked for
should_toggle(entry, mod_id) == entry.present /\ entry.parses /\ entry.id = mod_id

\* toggle_mod(mod_id), called before the resolver runs: the first directory
\* entry (in the order read_dir yields them) with that id is renamed, from
\* <name>.jar.disabled to <name>.jar or from <name>.jar to <name>.jar.disabled;
\* without such an entry the command returns Err and nothing changes.
ToggleMod ==
    /\ dpc = "idle"
    /\ \E mod_id \in ToggleIds :
         \/ \E f \in FileNames :
                /\ should_toggle(disabledMods[f], mod_id)
                /\ mods' = [mods EXCEPT ![f] = disabledMods[f]]
                /\ disabledMods' = [disabledMods EXCEPT ![f] = NoFile]
         \/ \E f \in FileNames :
                /\ should_toggle(mods[f], mod_id)
                /\ disabledMods' = [disabledMods EXCEPT ![f] = mods[f]]
                /\ mods' = [mods EXCEPT ![f] = NoFile]
         \/ /\ \A f \in FileNames : ~should_toggle(disabledMods[f], mod_id)
                                     /\ ~should_toggle(mods[f], mod_id)
            /\ UNCHANGED <<mods, disabledMods>>
    /\ UNCHANGED <<dpc, todo, passInst, allInst, failedIds, wire>>
    /\ OtherThanDep

DepNext == DepCall \/ InstallStep \/ Recurse \/ ReturnPass

\* The resolver and the user's toggle_mod commands
ToggleNext == DepNext \/ ToggleMod

(***************************************************************************)
(*                 ACQUISITION PIPELINE AND CLASSPATH                      *)
(***************************************************************************)

\* Bounds: acquisition runs per behaviour, and files present before the first run.
MaxRuns == 2
MaxPreexisting == 1

Platforms == {"windows", "linux"}

\* A Rule { action, os: Option<OsRule { name: Option<String> }> }.
\* hasOs = FALSE is `os: None`; osName = "" is `name: None`.
Rule(action, hasOs, osName) == [action |-> action, hasOs |-> hasOs, osName |-> osName]

AllowAny       == Rule("allow", FALSE, "")
AllowWindows   == Rule("allow", TRUE, "windows")
DenyWindows    == Rule("disallow", TRUE, "windows")

\* Maven coordinates, as `name.split(':')` yields them.
AsmBase    == <<"org.ow2.asm", "asm", "9.3">>
AsmLoader  == <<"org.ow2.asm", "asm", "9.6">>
Lwjgl      == <<"org.lwjgl", "lwjgl", "3.3.1">>
LoaderName == <<"net.fabricmc", "fabric-loader", "0.15.0">>

\* maven_to_path(name): group/artifact/version/artifact-version.jar under libraries/
maven_to_path(name) ==
    IF Len(name) >= 3 THEN <<"libraries", name[1], name[2], name[3]>>
                      ELSE <<"libraries">> \o name

\* get_artifact_key that keeps the version in the key
get_artifact_key_with_version(name) == name

\* the get_artifact_key closure of build_classpath
get_artifact_key(name) ==
    IF Len(name) >= 2 THEN <<name[1], name[2]>> ELSE name

\* Path of a Library's downloads.artifact (Mojang's metadata gives the maven path)
ArtifactPath(lib) == maven_to_path(lib.name)

\* Path of the classifier the library's natives map names under "windows"
NativePath(lib) == maven_to_path(lib.name) \o <<"natives-windows">>

ClientJar      == <<"versions", "client.jar">>
AssetIndexPath == <<"assets", "indexes", "index.json">>
ObjectPath     == <<"assets", "objects", "ab", "abcdef">>

\* A Library: name, whether downloads.artifact is present, whether it declares a
\* windows native classifier, and rules (hasRules = FALSE is `rules: None`).
Library(name, native, hasRules, rules) ==
    [name |-> name, artifact |-> TRUE, native |-> native,
     hasRules |-> hasRules, rules |-> rules]

\* The rule lists the second library of the version can carry.
LibRuleChoices ==
    {[hasRules |-> FALSE, rules |-> <<>>],
     [hasRules |-> TRUE,  rules |-> <<AllowWindows>>],
     [hasRules |-> TRUE,  rules |-> <<AllowAny, DenyWindows>>]}

\* VersionDetails.libraries: a rule-less library, then a library with natives
VersionLibraries ==
    {<<Library(AsmBase, FALSE, FALSE, <<>>), Library(Lwjgl, TRUE, c.hasRules, c.rules)>> :
        c \in LibRuleChoices}

\* FabricProfile.libraries
FabricProfiles == {<<AsmLoader, LoaderName>>}

LibPaths ==
    {maven_to_path(n) : n \in {AsmBase, Lwjgl}} \cup
    {maven_to_path(Lwjgl) \o <<"natives-windows">>}
FabricPaths == {maven_to_path(n) : n \in {AsmLoader, LoaderName}}
Paths == {ClientJar, AssetIndexPath, ObjectPath} \cup LibPaths \cup FabricPaths

NoPath == <<>>

\* should_use_library: the fold over the rules (`dominated` is an Option<bool>)
RECURSIVE dominated_after(_, _, _)
dominated_after(rules, i, dominated) ==
    IF i > Len(rules) THEN dominated
    ELSE LET rule == rules[i]
             dominated_match == IF ~rule.hasOs THEN TRUE
                                ELSE rule.osName = "windows"
         IN dominated_after(rules, i + 1,
                IF dominated_match
                   THEN (IF rule.action = "allow" THEN "Some(true)" ELSE "Some(false)")
                   ELSE dominated)

should_use_library(lib) ==
    IF lib.hasRules
       THEN dominated_after(lib.rules, 1, "None") = "Some(true)"
       ELSE TRUE

\* Outcomes of one HTTP download: the bytes the server sent match the declared
\* content ("good"), do not ("bad"), the status is not a success ("status"), or
\* the request failed in transport ("transport").
NetOutcomes == {"good", "bad", "status", "transport"}

\* The error of a request that did not deliver a body
request_error(net) == IF net = "transport" THEN "HttpError" ELSE "DownloadFailed"

\* download_file_verified that writes the body before it compares the hash
download_file_verified_writes_first(d, path, net) ==
    IF d[path] = "good"
       THEN [ok |-> TRUE, disk |-> d, requested |-> {}, err |-> "none"]
    ELSE IF net \in {"good", "bad"}
       THEN [ok |-> net = "good", disk |-> [d EXCEPT ![path] = net],
             requested |-> {path},
             err |-> IF net = "good" THEN "none" ELSE "DownloadFailed"]
       ELSE [ok |-> FALSE, disk |-> d, requested |-> {path}, err |-> request_error(net)]

\* download_file_verified that takes any existing file as verified
download_file_verified_trusts_existing(d, path, net) ==
    IF d[path] # "absent"
       THEN [ok |-> TRUE, disk |-> d, requested |-> {}, err |-> "none"]
    ELSE IF net = "good"
       THEN [ok |-> TRUE, disk |-> [d EXCEPT ![path] = "good"], requested |-> {path},
             err |-> "none"]
       ELSE [ok |-> FALSE, disk |-> d, requested |-> {path}, err |-> request_error(net)]

\* download_file_verified(url, path, sha1): [ok, disk, requested, err]
download_file_verified(d, path, net) ==
    IF d[path] = "good"
       THEN [ok |-> TRUE, disk |-> d, requested |-> {}, err |-> "none"]
    ELSE IF net = "good"
       THEN [ok |-> TRUE, disk |-> [d EXCEPT ![path] = "good"], requested |-> {path},
             err |-> "none"]
    ELSE IF net = "bad"
       THEN [ok |-> FALSE, disk |-> d, requested |-> {path}, err |-> "DownloadFailed"]
       ELSE [ok |-> FALSE, disk |-> d, requested |-> {path}, err |-> request_error(net)]

\* download_file(url, path): no hash check, whatever arrives is written
download_file(d, path, net) ==
    IF net \in {"status", "transport"}
       THEN [ok |-> FALSE, disk |-> d, requested |-> {path}, err |-> request_error(net)]
       ELSE [ok |-> TRUE, disk |-> [d EXCEPT ![path] = net], requested |-> {path},
             err |-> "none"]

\* A step that did nothing
NoDownload(d) == [ok |-> TRUE, disk |-> d, requested |-> {}, err |-> "none"]

\* What the requests of a download result were answered
Answered(r, net) == {<<p, net>> : p \in r.requested}

\* `if !path.exists() { download_file_verified(..)? }`
fetch_if_absent_verified(d, path, net) ==
    IF d[path] = "absent" THEN download_file_verified(d, path, net) ELSE NoDownload(d)

\* fetch_if_absent without the existence test
fetch_always(d, path, net) == download_file(d, path, net)

\* `if !path.exists() { download_file(..) }`
fetch_if_absent(d, path, net) ==
    IF d[path] = "absent" THEN download_file(d, path, net) ELSE NoDownload(d)

\* A failure that is recorded while the run goes on with the loader
Fail_goes_on(what, err) ==
    /\ qpc' = "fabric"
    /\ failedAt' = what
    /\ failErr' = err

\* The run fails at `what`
Fail(what, err) ==
    /\ qpc' = "failed"
    /\ failedAt' = what
    /\ failErr' = err

\* launch_game starts: download_minecraft is called.
AcqStart ==
    /\ qpc \in {"idle", "launched", "failed"}
    /\ runs < MaxRuns
    /\ runs' = runs + 1
    /\ qpc' = "details"
    /\ fetched' = {}
    /\ failedAt' = NoPath
    /\ failErr' = "none"
    /\ answers' = {}
    /\ libIdx' = 1
    /\ classpath' = <<>>
    /\ UNCHANGED <<platform, libraries, fabricLibs, disk, profileSaved>>
    /\ OtherThanAcq

\* get_version_details and the version JSON write
FetchDetails ==
    /\ qpc = "details"
    /\ \E net \in {"good", "error"} :
         IF net = "good" THEN qpc' = "client" /\ UNCHANGED <<failedAt, failErr>>
                         ELSE Fail(<<"version details">>, "HttpError")
    /\ UNCHANGED <<platform, libraries, fabricLibs, disk, profileSaved, runs, libIdx,
                   fetched, answers, classpath>>
    /\ OtherThanAcq

\* The client JAR: download_file_verified(..).await?
DownloadClient ==
    /\ qpc = "client"
    /\ \E net \in NetOutcomes :
         LET r == download_file_verified(disk, ClientJar, net) IN
         /\ disk' = r.disk
         /\ fetched' = fetched \cup r.requested
         /\ answers' = answers \cup Answered(r, net)
         /\ IF r.ok THEN qpc' = "libs" /\ UNCHANGED <<failedAt, failErr>>
                    ELSE Fail(ClientJar, r.err)
    /\ libIdx' = 1
    /\ UNCHANGED <<platform, libraries, fabricLibs, profileSaved, runs, classpath>>
    /\ OtherThanAcq

\* One iteration of `for (i, lib) in details.libraries.iter().enumerate()`
LibraryStep ==
    /\ qpc = "libs"
    /\ libIdx <= Len(libraries)
    /\ LET lib == libraries[libIdx] IN
       IF ~should_use_library(lib)
          THEN /\ libIdx' = libIdx + 1
               /\ UNCHANGED <<disk, fetched, answers, qpc, failedAt, failErr>>
          ELSE \E net1 \in NetOutcomes, net2 \in NetOutcomes :
               LET r1 == IF lib.artifact
                            THEN fetch_if_absent_verified(disk, ArtifactPath(lib), net1)
                            ELSE NoDownload(disk)
                   r2 == IF lib.native
                            THEN fetch_if_absent_verified(r1.disk, NativePath(lib), net2)
                            ELSE NoDownload(r1.disk)
               IN IF ~r1.ok
                     THEN /\ disk' = r1.disk
                          /\ fetched' = fetched \cup r1.requested
                          /\ answers' = answers \cup Answered(r1, net1)
                          /\ Fail(ArtifactPath(lib), r1.err)
                          /\ UNCHANGED libIdx
                  ELSE IF ~r2.ok
                     THEN /\ disk' = r2.disk
                          /\ fetched' = fetched \cup r1.requested \cup r2.requested
                          /\ answers' = answers \cup Answered(r1, net1)
                                                 \cup Answered(r2, net2)
                          /\ Fail(NativePath(lib), r2.err)
                          /\ UNCHANGED libIdx
                  ELSE /\ disk' = r2.disk
                       /\ fetched' = fetched \cup r1.requested \cup r2.requested
                       /\ answers' = answers \cup Answered(r1, net1)
                                              \cup Answered(r2, net2)
                       /\ libIdx' = libIdx + 1
                       /\ UNCHANGED <<qpc, failedAt, failErr>>
    /\ UNCHANGED <<platform, libraries, fabricLibs, profileSaved, runs, classpath>>
    /\ OtherThanAcq

\* End of the library loop: download_assets begins
LibrariesDone ==
    /\ qpc = "libs"
    /\ libIdx > Len(libraries)
    /\ qpc' = "index"
    /\ UNCHANGED <<platform, libraries, fabricLibs, disk, profileSaved, runs, libIdx,
                   fetched, failedAt, failErr, answers, classpath>>
    /\ OtherThanAcq

\* download_assets: the asset index, then reading and parsing it.  An index file
\* with other content either fails to parse or parses (to the objects below).
AssetIndexStep ==
    /\ qpc = "index"
    /\ \E net \in NetOutcomes, parses \in BOOLEAN :
         LET r == fetch_if_absent_verified(disk, AssetIndexPath, net) IN
         /\ disk' = r.disk
         /\ fetched' = fetched \cup r.requested
         /\ answers' = answers \cup Answered(r, net)
         /\ IF ~r.ok THEN Fail(AssetIndexPath, r.err)
            ELSE IF r.disk[AssetIndexPath] = "bad" /\ ~parses
                 THEN Fail(<<"asset index parse">>, "JsonError")
            ELSE qpc' = "objects" /\ UNCHANGED <<failedAt, failErr>>
    /\ UNCHANGED <<platform, libraries, fabricLibs, profileSaved, runs, libIdx, classpath>>
    /\ OtherThanAcq

\* download_assets: the loop over index.objects (one object), then Ok(())
AssetObjectStep ==
    /\ qpc = "objects"
    /\ \E net \in NetOutcomes :
         LET r == fetch_if_absent(disk, ObjectPath, net) IN
         /\ disk' = r.disk
         /\ fetched' = fetched \cup r.requested
         /\ answers' = answers \cup Answered(r, net)
         /\ IF r.ok THEN qpc' = "fabric" /\ UNCHANGED <<failedAt, failErr>>
                    ELSE Fail(ObjectPath, r.err)
    /\ UNCHANGED <<platform, libraries, fabricLibs, profileSaved, runs, libIdx, classpath>>
    /\ OtherThanAcq

\* get_fabric_loader, then download_fabric up to the profile write: the
\* request or the decoding of the profile fails ("error"), or writing the
\* profile file does ("io")
FabricProfileStep ==
    /\ qpc = "fabric"
    /\ \E net \in {"good", "error", "io"} :
         IF net = "good"
            THEN /\ profileSaved' = TRUE
                 /\ qpc' = "fablibs"
                 /\ libIdx' = 1
                 /\ UNCHANGED <<failedAt, failErr>>
            ELSE /\ Fail(<<"fabric profile">>,
                         IF net = "io" THEN "IoError" ELSE "HttpError")
                 /\ UNCHANGED <<profileSaved, libIdx>>
    /\ UNCHANGED <<platform, libraries, fabricLibs, disk, runs, fetched, answers,
                   classpath>>
    /\ OtherThanAcq

\* The loop over the loader libraries with `?` on the download
FabricLibraryStep_fatal ==
    /\ qpc = "fablibs"
    /\ libIdx <= Len(fabricLibs)
    /\ \E net \in NetOutcomes :
         LET r == fetch_if_absent(disk, maven_to_path(fabricLibs[libIdx]), net) IN
         /\ disk' = r.disk
         /\ fetched' = fetched \cup r.requested
         /\ answers' = answers \cup Answered(r, net)
         /\ IF r.ok THEN libIdx' = libIdx + 1 /\ UNCHANGED <<qpc, failedAt, failErr>>
                    ELSE Fail(maven_to_path(fabricLibs[libIdx]), r.err)
                         /\ UNCHANGED libIdx
    /\ UNCHANGED <<platform, libraries, fabricLibs, profileSaved, runs, classpath>>
    /\ OtherThanAcq

\* One iteration of `for (i, lib) in profile.libraries.iter().enumerate()`:
\* a failed download is logged, the loop goes on
FabricLibraryStep ==
    /\ qpc = "fablibs"
    /\ libIdx <= Len(fabricLibs)
    /\ \E net \in NetOutcomes :
         LET r == fetch_if_absent(disk, maven_to_path(fabricLibs[libIdx]), net) IN
         /\ disk' = r.disk
         /\ fetched' = fetched \cup r.requested
         /\ answers' = answers \cup Answered(r, net)
    /\ libIdx' = libIdx + 1
    /\ UNCHANGED <<platform, libraries, fabricLibs, profileSaved, qpc, runs, failedAt,
                   failErr, classpath>>
    /\ OtherThanAcq

\* download_fabric returns Ok(())
FabricDone ==
    /\ qpc = "fablibs"
    /\ libIdx > Len(fabricLibs)
    /\ qpc' = "done"
    /\ UNCHANGED <<platform, libraries, fabricLibs, disk, profileSaved, runs, libIdx,
                   fetched, failedAt, failErr, answers, classpath>>
    /\ OtherThanAcq

\* `path.exists()`
Exists(d, path) == d[path] # "absent"

\* build_classpath: the loop over fabric_profile.libraries
RECURSIVE add_fabric_libraries(_, _, _, _)
add_fabric_libraries(d, libs, i, acc) ==
    IF i > Len(libs) THEN acc
    ELSE LET artifact_key == get_artifact_key(libs[i])
             lib_path == maven_to_path(libs[i])
         IN add_fabric_libraries(d, libs, i + 1,
                IF artifact_key \notin acc.added_artifacts
                   THEN [added_artifacts |-> acc.added_artifacts \cup {artifact_key},
                         classpath |-> IF Exists(d, lib_path)
                                          THEN Append(acc.classpath, lib_path)
                                          ELSE acc.classpath]
                   ELSE acc)

\* build_classpath: the loop over details.libraries
RECURSIVE add_vanilla_libraries(_, _, _, _)
add_vanilla_libraries(d, libs, i, acc) ==
    IF i > Len(libs) THEN acc
    ELSE LET lib == libs[i]
             artifact_key == get_artifact_key(lib.name)
         IN add_vanilla_libraries(d, libs, i + 1,
                IF ~should_use_library(lib) THEN acc
                ELSE IF artifact_key \notin acc.added_artifacts
                   THEN [added_artifacts |-> acc.added_artifacts \cup {artifact_key},
                         classpath |-> IF lib.artifact /\ Exists(d, ArtifactPath(lib))
                                          THEN Append(acc.classpath, ArtifactPath(lib))
                                          ELSE acc.classpath]
                   ELSE acc)

\* build_classpath(mc_version, fabric_version), given that get_version_details answers
build_classpath(d, saved, fabLibs, libs) ==
    LET start == [added_artifacts |-> {},
                  classpath |-> IF Exists(d, ClientJar) THEN <<ClientJar>> ELSE <<>>]
        withFabric == IF saved THEN add_fabric_libraries(d, fabLibs, 1, start) ELSE start
    IN add_vanilla_libraries(d, libs, 1, withFabric).classpath

\* launch(): build_classpath, which fetches the version details again
BuildClasspath ==
    /\ qpc = "done"
    /\ \E net \in {"good", "error"} :
         IF net = "good"
            THEN /\ classpath' = build_classpath(disk, profileSaved, fabricLibs, libraries)
                 /\ qpc' = "launched"
                 /\ UNCHANGED <<failedAt, failErr>>
            ELSE /\ Fail(<<"version details">>, "HttpError")
                 /\ UNCHANGED classpath
    /\ UNCHANGED <<platform, libraries, fabricLibs, disk, profileSaved, runs, libIdx,
                   fetched, answers>>
    /\ OtherThanAcq

\* Install directories before the first run: at most MaxPreexisting files exist,
\* with the declared content or any other.
InitialDisks ==
    {d \in [Paths -> {"absent", "good", "bad"}] :
        Cardinality({p \in Paths : d[p] # "absent"}) <= MaxPreexisting}

AcqInit ==
    /\ platform \in Platforms
    /\ libraries \in VersionLibraries
    /\ fabricLibs \in FabricProfiles
    /\ disk \in InitialDisks
    /\ profileSaved = FALSE
    /\ qpc = "idle"
    /\ runs = 0
    /\ libIdx = 1
    /\ fetched = {}
    /\ failedAt = NoPath
    /\ failErr = "none"
    /\ answers = {}
    /\ classpath = <<>>

AcqNext ==
    \/ AcqStart \/ FetchDetails \/ DownloadClient \/ LibraryStep \/ LibrariesDone
    \/ AssetIndexStep \/ AssetObjectStep \/ FabricProfileStep \/ FabricLibraryStep
    \/ FabricDone \/ BuildClasspath

(***************************************************************************)
(*                        AUTHENTICATION CHAIN                             *)
(***************************************************************************)

\* Bound: poll requests one call may send in the model.
MaxPolls == 3

\* The extra wait on slow_down, in seconds.
SlowDownExtra == 5

Intervals == {1, 5}

\* `error` values of the provider ("" is no error field)
ProviderErrors ==
    {"authorization_pending", "slow_down", "expired_token", "authorization_declined",
     "invalid_grant"}

\* A poll response: a JSON object or a form-encoded body with or without an
\* access_token field and an error field, a body that is neither, or no response.
PollResponses ==
    {[enc |-> e, token |-> t, error |-> x] :
        e \in {"json", "form"}, t \in BOOLEAN, x \in ProviderErrors \cup {""}}
    \cup {[enc |-> "other", token |-> FALSE, error |-> ""],
          [enc |-> "transport", token |-> FALSE, error |-> ""]}

NoResponse == [enc |-> "none", token |-> FALSE, error |-> ""]

\* match_error with a bound on waiting: authorization_pending gives up.
match_error_pending_gives_up(error) ==
    CASE error = "authorization_pending"  -> [next |-> "return", extra |-> 0,
                                              result |-> "Timeout"]
      [] error = "slow_down"              -> [next |-> "continue", extra |-> SlowDownExtra,
                                              result |-> "none"]
      [] error = "expired_token"          -> [next |-> "return", extra |-> 0,
                                              result |-> "Timeout"]
      [] error = "authorization_declined" -> [next |-> "return", extra |-> 0,
                                              result |-> "Cancelled"]
      [] OTHER                            -> [next |-> "return", extra |-> 0,
                                              result |-> "AuthFailed"]

\* match_error without the arms of expired_token and authorization_declined:
\* both fall to the catch-all arm.
match_error_catch_all(error) ==
    CASE error = "authorization_pending"  -> [next |-> "continue", extra |-> 0,
                                              result |-> "none"]
      [] error = "slow_down"              -> [next |-> "continue", extra |-> SlowDownExtra,
                                              result |-> "none"]
      [] OTHER                            -> [next |-> "return", extra |-> 0,
                                              result |-> "AuthFailed"]

\* The `match` on the provider error, the same in the JSON and the form branch
match_error(error) ==
    CASE error = "authorization_pending"  -> [next |-> "continue", extra |-> 0,
                                              result |-> "none"]
      [] error = "slow_down"              -> [next |-> "continue", extra |-> SlowDownExtra,
                                              result |-> "none"]
      [] error = "expired_token"          -> [next |-> "return", extra |-> 0,
                                              result |-> "Timeout"]
      [] error = "authorization_declined" -> [next |-> "return", extra |-> 0,
                                              result |-> "Cancelled"]
      [] OTHER                            -> [next |-> "return", extra |-> 0,
                                              result |-> "AuthFailed"]

Complete == [next |-> "complete", extra |-> 0, result |-> "none"]
Return(kind) == [next |-> "return", extra |-> 0, result |-> kind]

\* The body of the poll loop after the sleep: what the response leads to
handle_poll_response(resp) ==
    IF resp.enc = "transport" THEN Return("HttpError")
    \* serde_json::from_str::<TokenResponse>
    ELSE IF resp.enc = "json" /\ resp.token THEN Complete
    \* serde_json::from_str::<JsonError>
    ELSE IF resp.enc = "json" /\ resp.error # "" THEN match_error(resp.error)
    \* parse_form_response, data.get("error"), data.get("access_token")
    ELSE IF resp.enc = "form" /\ resp.error # "" THEN match_error(resp.error)
    ELSE IF resp.enc = "form" /\ resp.token THEN Complete
    ELSE Return("ParseError")

\* Answers to the device-code request: no response, or a status and a body that
\* is a JSON object, a form-encoded body or neither, with or without an error
\* field and with or without the device_code, user_code, verification_uri fields.
DeviceResponses ==
    {[status |-> st, enc |-> e, error |-> x, complete |-> c] :
        st \in {"success", "failure"}, e \in {"json", "form"}, x \in BOOLEAN,
        c \in BOOLEAN}
    \cup {[status |-> st, enc |-> "other", error |-> FALSE, complete |-> FALSE] :
            st \in {"success", "failure"}}
    \cup {[status |-> "none", enc |-> "transport", error |-> FALSE, complete |-> FALSE]}

NoDeviceResponse == [status |-> "none", enc |-> "none", error |-> FALSE,
                     complete |-> FALSE]

\* parse_form_response on the body, as far as start_device_code_flow reads it:
\* whether the map has an "error" key and the device-code keys.  The text of a
\* JSON object yields none of these keys.
parse_form_response(resp) ==
    IF resp.enc = "form"
       THEN [error |-> resp.error, complete |-> resp.complete]
       ELSE [error |-> FALSE, complete |-> FALSE]

\* start_device_code_flow: the result for a response
start_device_code_flow(resp) ==
    IF resp.enc = "transport" THEN "HttpError"
    ELSE IF resp.status # "success" THEN "AuthFailed"
    \* serde_json::from_str::<DeviceCodeResponse>
    ELSE IF resp.enc = "json" /\ resp.complete THEN "Ok"
    ELSE LET data == parse_form_response(resp) IN
         IF data.error THEN "AuthFailed"
         ELSE IF data.complete THEN "Ok"
         ELSE "ParseError"

\* start_device_code_flow() is called and returns
StartDeviceCodeFlow ==
    /\ apc = "idle"
    /\ dresult = "none"
    /\ \E resp \in DeviceResponses :
         /\ dresp' = resp
         /\ dresult' = start_device_code_flow(resp)
    /\ UNCHANGED <<apc, aresult, interval, wait, polls, pendingRun, lastResp, hops,
                   msRefresh, flow, token, hopLog>>
    /\ OtherThanAuth

\* poll_and_authenticate(device_code, interval) is called
PollCall ==
    /\ apc = "idle"
    /\ dresult = "Ok"
    /\ apc' = "sleep"
    /\ flow' = "device"
    /\ wait' = interval
    /\ UNCHANGED <<aresult, interval, polls, pendingRun, lastResp, hops, msRefresh,
                   token, hopLog, dresp, dresult>>
    /\ OtherThanAuth

\* The poll loop with an extra wait that is added to the wait of the loop
\* for good
Poll_accumulates ==
    /\ apc = "sleep"
    /\ polls < MaxPolls
    /\ \E resp \in PollResponses, rt \in {"", "rt"} :
         LET h == handle_poll_response(resp) IN
         /\ lastResp' = resp
         /\ polls' = polls + 1
         /\ pendingRun' = IF pendingRun = polls /\ resp.error = "authorization_pending"
                             /\ ~resp.token /\ resp.enc \in {"json", "form"}
                             THEN pendingRun + 1 ELSE pendingRun
         /\ CASE h.next = "continue" ->
                    /\ apc' = "sleep"
                    /\ wait' = wait + h.extra
                    /\ UNCHANGED <<aresult, msRefresh, token>>
              [] h.next = "complete" ->
                    /\ apc' = "xbox"
                    /\ msRefresh' = rt
                    /\ token' = "ms"
                    /\ UNCHANGED <<aresult, wait>>
              [] OTHER ->
                    /\ apc' = "returned"
                    /\ aresult' = h.result
                    /\ UNCHANGED <<wait, msRefresh, token>>
    /\ UNCHANGED <<interval, hops, flow, hopLog, dresp, dresult>>
    /\ OtherThanAuth

\* One iteration of the poll loop: sleep, request, handle the response
Poll ==
    /\ apc = "sleep"
    /\ polls < MaxPolls
    /\ \E resp \in PollResponses, rt \in {"", "rt"} :
         LET h == handle_poll_response(resp) IN
         /\ lastResp' = resp
         /\ polls' = polls + 1
         /\ pendingRun' = IF pendingRun = polls /\ resp.error = "authorization_pending"
                             /\ ~resp.token /\ resp.enc \in {"json", "form"}
                             THEN pendingRun + 1 ELSE pendingRun
         /\ CASE h.next = "continue" ->
                    /\ apc' = "sleep"
                    /\ wait' = interval + h.extra
                    /\ UNCHANGED <<aresult, msRefresh, token>>
              [] h.next = "complete" ->
                    /\ apc' = "xbox"
                    /\ msRefresh' = rt
                    /\ token' = "ms"
                    /\ UNCHANGED <<aresult, wait>>
              [] OTHER ->
                    /\ apc' = "returned"
                    /\ aresult' = h.result
                    /\ UNCHANGED <<wait, msRefresh, token>>
    /\ UNCHANGED <<interval, hops, flow, hopLog, dresp, dresult>>
    /\ OtherThanAuth

\* refresh(refresh_token): the refresh grant, then complete_authentication
RefreshCall ==
    /\ apc = "idle"
    /\ dresult = "none"
    /\ flow' = "refresh"
    /\ \E ok \in BOOLEAN, rt \in {"", "rt"} :
         IF ok THEN /\ apc' = "xbox"
                    /\ msRefresh' = rt
                    /\ token' = "ms"
                    /\ UNCHANGED aresult
               ELSE /\ apc' = "returned"
                    /\ aresult' = "HttpError"
                    /\ UNCHANGED <<msRefresh, token>>
    /\ UNCHANGED <<interval, wait, polls, pendingRun, lastResp, hops, hopLog, dresp,
                   dresult>>
    /\ OtherThanAuth

\* Answers to a JSON hop: no response, a non-success status, a body that does
\* not deserialize, or a well-formed success body
HopAnswers == {"transport", "status", "malformed", "ok"}

hop_error(answer) ==
    CASE answer = "transport" -> "HttpError"
      [] answer = "status"    -> "AuthFailed"
      [] OTHER                -> "ParseError"

\* A failed hop whose error is dropped: the chain goes on to the profile fetch
HopFails_swallowed(kind) ==
    /\ apc' = "profile"
    /\ UNCHANGED aresult

\* A hop failed with `kind`: complete_authentication returns Err(kind)
HopFails(kind) ==
    /\ apc' = "returned"
    /\ aresult' = kind

\* What every hop leaves alone
HopFrame ==
    UNCHANGED <<interval, wait, polls, pendingRun, lastResp, msRefresh, flow, dresp,
                dresult>>

\* authenticate_xbox(&ms_token.access_token).await?
XboxHop ==
    /\ apc = "xbox"
    /\ hops' = Append(hops, "xbox")
    /\ \E answer \in HopAnswers :
         /\ hopLog' = Append(hopLog, <<token, answer>>)
         /\ IF answer = "ok" THEN apc' = "xsts" /\ token' = "xbl" /\ UNCHANGED aresult
                             ELSE HopFails(hop_error(answer)) /\ UNCHANGED token
    /\ HopFrame
    /\ OtherThanAuth

\* get_xsts_token(&xbox_token.token).await?, then display_claims.xui[0]
XstsHop ==
    /\ apc = "xsts"
    /\ hops' = Append(hops, "xsts")
    /\ \E answer \in HopAnswers, xui \in 0..2 :
         /\ hopLog' = Append(hopLog, <<token, answer>>)
         /\ IF answer # "ok" THEN HopFails(hop_error(answer)) /\ UNCHANGED token
            ELSE IF xui = 0
               THEN apc' = "panicked" /\ aresult' = "Panic" /\ token' = "xsts"
            ELSE apc' = "minecraft" /\ token' = "xsts" /\ UNCHANGED aresult
    /\ HopFrame
    /\ OtherThanAuth

\* authenticate_minecraft(uhs, &xsts_response.token).await?
MinecraftHop ==
    /\ apc = "minecraft"
    /\ hops' = Append(hops, "minecraft")
    /\ \E answer \in HopAnswers :
         /\ hopLog' = Append(hopLog, <<token, answer>>)
         /\ IF answer = "ok" THEN apc' = "profile" /\ token' = "mc" /\ UNCHANGED aresult
                             ELSE HopFails(hop_error(answer)) /\ UNCHANGED token
    /\ HopFrame
    /\ OtherThanAuth

\* Answers to the profile request: no response, status 404, another status
\* without a profile body, a success body that does not deserialize, a profile
ProfileAnswers == {"transport", "404", "status", "malformed", "ok"}

\* get_minecraft_profile with a status test inverted to "any failure status"
get_minecraft_profile_any_status(answer) ==
    CASE answer = "ok"                -> "Ok"
      [] answer \in {"404", "status"} -> "NoMinecraft"
      [] OTHER                        -> "HttpError"

\* get_minecraft_profile(access_token): Ok(profile) or the error
get_minecraft_profile(answer) ==
    CASE answer = "ok"  -> "Ok"
      [] answer = "404" -> "NoMinecraft"
      [] OTHER          -> "HttpError"

\* get_minecraft_profile(&mc_token.access_token).await?, then expires_at and
\* Ok(MinecraftProfile).  `mc_token.expires_in * 1000` is u64 arithmetic on the
\* provider's number: it fits, or it overflows, which wraps or panics by build.
ProfileHop ==
    /\ apc = "profile"
    /\ hops' = Append(hops, "profile")
    /\ \E answer \in ProfileAnswers, expiry \in {"fits", "wraps", "panics"} :
         /\ hopLog' = Append(hopLog, <<token, answer>>)
         /\ IF answer = "ok" /\ expiry = "panics"
               THEN apc' = "panicked" /\ aresult' = "Panic"
               ELSE apc' = "returned" /\ aresult' = get_minecraft_profile(answer)
    /\ UNCHANGED token
    /\ HopFrame
    /\ OtherThanAuth

AuthInit ==
    /\ apc = "idle"
    /\ aresult = "none"
    /\ interval \in Intervals
    /\ wait = 0
    /\ polls = 0
    /\ pendingRun = 0
    /\ lastResp = NoResponse
    /\ hops = <<>>
    /\ msRefresh = ""
    /\ flow = "none"
    /\ token = ""
    /\ hopLog = <<>>
    /\ dresp = NoDeviceResponse
    /\ dresult = "none"

AuthNext ==
    \/ StartDeviceCodeFlow
    \/ PollCall \/ Poll \/ RefreshCall \/ XboxHop \/ XstsHop \/ MinecraftHop
    \/ ProfileHop

(***************************************************************************)
(*                     LIBRARY RULE EVALUATION                             *)
(***************************************************************************)

\* Bound: rules per library entry.
MaxRules == 2

RulePlatforms == {"windows", "linux", "osx"}

\* `os: None`, an OsRule without a name, or an OsRule naming an OS
RuleSet ==
    {Rule(a, FALSE, "") : a \in {"allow", "disallow"}}
    \cup {Rule(a, TRUE, n) : a \in {"allow", "disallow"}, n \in RulePlatforms \cup {""}}

RuleLists == UNION {[1..n -> RuleSet] : n \in 0..MaxRules}

RuleLibraries ==
    {Library(AsmBase, FALSE, FALSE, <<>>)}
    \cup {Library(AsmBase, FALSE, TRUE, rs) : rs \in RuleLists}

\* should_use_library(&lib) is evaluated
Evaluate ==
    /\ rres = "unset"
    /\ rres' = IF should_use_library(rlib) THEN "true" ELSE "false"
    /\ UNCHANGED rlib
    /\ OtherThanRule

RuleInit ==
    /\ rlib \in RuleLibraries
    /\ rres = "unset"

RuleNext == Evaluate

(***************************************************************************)
(*                       GAME PROCESS SUPERVISOR                           *)
(***************************************************************************)

\* Bounds: game processes launched, and stop_game calls, in one behaviour.
MaxLaunches == 2
MaxStops == 2

Pids == 1..MaxLaunches

\* The liveness check of the monitor task.  A check command that cannot be run
\* or read counts as "not running" (`unwrap_or(false)`).  On Windows tasklist
\* prints the pid only for a running process.  Elsewhere `ps -p pid` succeeds
\* while the pid is in the process table: the child is spawned with
\* std::process::Command and never waited for, so it stays there after it exits.
is_running(plat, proc, cmdOk) ==
    /\ cmdOk
    /\ IF plat = "windows" THEN proc = "alive" ELSE proc \in {"alive", "exited"}

\* launch_game after a successful spawn: the child is stored, the monitor task
\* is spawned
Launch(p) ==
    /\ procs[p] = "unborn"
    /\ \A q \in Pids : q < p => procs[q] # "unborn"
    /\ procs' = [procs EXCEPT ![p] = "alive"]
    /\ game_process' = p
    /\ spc' = [spc EXCEPT ![p] = "sleep"]
    /\ UNCHANGED <<supIdle, stopIdle, stops, auth_request, auth_response, pollers,
                   requests, reqLog>>
    /\ OtherThanSup

\* The game exits by itself
ProcessExits(p) ==
    /\ procs[p] = "alive"
    /\ procs' = [procs EXCEPT ![p] = "exited"]
    /\ UNCHANGED <<spc, game_process, supIdle, stopIdle, stops, auth_request,
                   auth_response, pollers, requests, reqLog>>
    /\ OtherThanSup

\* tokio::time::sleep(1 s) of the monitor loop has elapsed
SupWake(p) ==
    /\ spc[p] = "sleep"
    /\ spc' = [spc EXCEPT ![p] = "auth"]
    /\ UNCHANGED <<procs, game_process, supIdle, stopIdle, stops, auth_request,
                   auth_response, pollers, requests, reqLog>>
    /\ OtherThanSup

\* Bound: request files the game writes in one behaviour.
MaxRequests == 2

\* What the game (or anything else) can write to auth_request.json: the device
\* flow request, text that is not JSON, JSON without an "action" string, JSON
\* with another action
RequestContents == {"start_device_flow", "not json", "no action", "other action"}

\* The game writes a request file
WriteRequest(p) ==
    /\ procs[p] = "alive"
    /\ auth_request = "none"
    /\ requests < MaxRequests
    /\ requests' = requests + 1
    /\ \E c \in RequestContents : auth_request' = c
    /\ UNCHANGED <<procs, spc, game_process, supIdle, stopIdle, stops, auth_response,
                   pollers, reqLog>>
    /\ OtherThanSup

\* No request read
NoRequest == <<0, "none">>

\* check_and_handle_auth_request, first part: `if !request_file.exists()
\* { return false }` and read_to_string.  The monitor tasks run on the threads
\* of the async runtime, so another task can read the file before this one
\* removes it.
SupAuth(p) ==
    /\ spc[p] = "auth"
    /\ IF auth_request = "none"
          THEN /\ spc' = [spc EXCEPT ![p] = "check"]
               /\ UNCHANGED held
          ELSE /\ spc' = [spc EXCEPT ![p] = "handle"]
               /\ held' = [held EXCEPT ![p] = <<requests, auth_request>>]
    /\ UNCHANGED <<procs, game_process, supIdle, stopIdle, stops, auth_request,
                   auth_response, pollers, requests, flows, responses>>
    /\ OtherThanSup

\* check_and_handle_auth_request after remove_file, on the content read:
\* [response file, poll tasks, whether a device-code flow was started, whether
\* the response file was written], given what start_device_code_flow returns
\* and whether the response file can be written
check_and_handle_auth_request(content, resp, n, flowOk, writeOk) ==
    IF content # "start_device_flow"
       THEN [response |-> resp, pollers |-> n, started |-> FALSE, wrote |-> FALSE]
    ELSE IF ~flowOk
       THEN [response |-> IF writeOk THEN "error" ELSE resp, pollers |-> n,
             started |-> TRUE, wrote |-> writeOk]
    ELSE IF ~writeOk
       THEN [response |-> resp, pollers |-> n, started |-> TRUE, wrote |-> FALSE]
       ELSE [response |-> "pending", pollers |-> n + 1, started |-> TRUE, wrote |-> TRUE]

\* check_and_handle_auth_request, second part: `let _ = remove_file(..)`, then
\* the parse, the device-code request and the response file
SupHandle(p) ==
    /\ spc[p] = "handle"
    /\ spc' = [spc EXCEPT ![p] = "check"]
    /\ auth_request' = "none"
    /\ held' = [held EXCEPT ![p] = NoRequest]
    /\ \E flowOk, writeOk \in BOOLEAN :
         LET r == check_and_handle_auth_request(held[p][2], auth_response, pollers,
                                                flowOk, writeOk)
         IN /\ auth_response' = r.response
            /\ pollers' = r.pollers
            /\ flows' = IF r.started THEN [flows EXCEPT ![held[p][1]] = @ + 1] ELSE flows
            /\ responses' = IF r.wrote THEN responses + 1 ELSE responses
    /\ UNCHANGED <<procs, game_process, supIdle, stopIdle, stops, requests>>
    /\ OtherThanSup

\* A poll_device_flow_for_mod task ends: poll_and_authenticate returned and the
\* final response is written
PollFinishes ==
    /\ pollers > 0
    /\ pollers' = pollers - 1
    /\ \E final \in {"success", "error"}, writeOk \in BOOLEAN :
         /\ auth_response' = IF writeOk THEN final ELSE auth_response
         /\ responses' = IF writeOk THEN responses + 1 ELSE responses
    /\ UNCHANGED <<procs, spc, game_process, supIdle, stopIdle, stops, auth_request,
                   requests, held, flows>>
    /\ OtherThanSup

\* The liveness check and `if !is_running { .. emit idle .. break }`
SupCheck(p) ==
    /\ spc[p] = "check"
    /\ \E cmdOk \in BOOLEAN :
         IF is_running(platform, procs[p], cmdOk)
            THEN /\ spc' = [spc EXCEPT ![p] = "sleep"]
                 /\ UNCHANGED <<game_process, supIdle>>
            ELSE /\ spc' = [spc EXCEPT ![p] = "done"]
                 /\ game_process' = 0
                 /\ supIdle' = [supIdle EXCEPT ![p] = @ + 1]
    /\ UNCHANGED <<procs, stopIdle, stops, auth_request, auth_response, pollers,
                   requests, reqLog>>
    /\ OtherThanSup

\* stop_game: take the stored child and kill it, emit launch_state idle
StopGame ==
    /\ stops < MaxStops
    /\ stops' = stops + 1
    /\ game_process' = 0
    /\ procs' = IF game_process # 0 /\ procs[game_process] = "alive"
                   THEN [procs EXCEPT ![game_process] = "exited"]
                   ELSE procs
    /\ stopIdle' = IF game_process # 0
                      THEN [stopIdle EXCEPT ![game_process] = @ + 1]
                      ELSE stopIdle
    /\ UNCHANGED <<spc, supIdle, auth_request, auth_response, pollers, requests, reqLog>>
    /\ OtherThanSup

SupInit ==
    /\ procs = [p \in Pids |-> "unborn"]
    /\ spc = [p \in Pids |-> "none"]
    /\ game_process = 0
    /\ supIdle = [p \in Pids |-> 0]
    /\ stopIdle = [p \in Pids |-> 0]
    /\ stops = 0
    /\ auth_request = "none"
    /\ auth_response = "none"
    /\ pollers = 0
    /\ requests = 0
    /\ held = [p \in Pids |-> NoRequest]
    /\ flows = [i \in 1..MaxRequests |-> 0]
    /\ responses = 0

SupStep(p) == SupWake(p) \/ SupAuth(p) \/ SupHandle(p) \/ SupCheck(p)

SupNext ==
    \/ \E p \in Pids : Launch(p)
    \/ \E p \in Pids : ProcessExits(p)
    \/ \E p \in Pids : SupWake(p)
    \/ \E p \in Pids : SupAuth(p)
    \/ \E p \in Pids : SupHandle(p)
    \/ \E p \in Pids : SupCheck(p)
    \/ StopGame
    \/ \E p \in Pids : WriteRequest(p)
    \/ PollFinishes

(***************************************************************************)
(*                             LAUNCH_GAME                                 *)
(***************************************************************************)

\* The common_paths array of find_java
NumCommonPaths == 5
CommonPaths == 1..NumCommonPaths

NoJava == <<>>

\* What the javaPath argument of launch_game can be
JavaPathArgs == {"none", "exists", "missing"}

\* find_java(): JAVA_HOME, then the common locations in array order, then
\* `where java`; NoJava stands for Err(JavaNotFound)
find_java(home, common, where) ==
    IF home THEN <<"JAVA_HOME">>
    ELSE IF common # {}
       THEN <<"common", CHOOSE i \in common : \A k \in common : i <= k>>
    ELSE IF where THEN <<"PATH">>
    ELSE NoJava

\* What resolve_and_install_dependencies can hand back to launch_game: Err, or
\* Ok with the installed ones of the missing dependencies
DepsReturns ==
    {[ok |-> FALSE, missing |-> {}, installed |-> {}]} \cup
    {[ok |-> TRUE, missing |-> m, installed |-> i] :
        m \in SUBSET {"foo", "bar"}, i \in SUBSET {"foo", "bar"}}

\* A `?` in launch_game: the call returns Err(e.to_string())
LReturn(err) ==
    /\ lpc' = "returned"
    /\ lresult' = err

\* launch_game is invoked
LaunchCall ==
    /\ lpc \in {"idle", "returned"}
    /\ \E p \in Pids : procs[p] = "unborn"
    /\ \E jp \in JavaPathArgs : javaPath' = jp
    /\ lpc' = "download"
    /\ lresult' = "none"
    /\ java' = NoJava
    /\ depsRet' = "none"
    /\ ltrace' = <<>>
    /\ UNCHANGED <<javaHome, commonJava, whereJava, supVars>>
    /\ OtherThanLaunch

\* A step whose Err is recorded and otherwise ignored: the call goes on
LStep_goes_on(at, next, err) ==
    /\ lpc = at
    /\ ltrace' = Append(ltrace, at)
    /\ \E ok \in BOOLEAN :
         /\ lpc' = next
         /\ IF ok THEN UNCHANGED lresult ELSE lresult' = err
    /\ UNCHANGED <<javaPath, javaHome, commonJava, whereJava, java, depsRet, supVars>>
    /\ OtherThanLaunch

\* A step of launch_game before the resolver that ends the call on Err:
\* download_minecraft, get_fabric_loader, download_fabric, the mod install
LStep(at, next, err) ==
    /\ lpc = at
    /\ ltrace' = Append(ltrace, at)
    /\ \E ok \in BOOLEAN :
         IF ok THEN lpc' = next /\ UNCHANGED lresult ELSE LReturn(err)
    /\ UNCHANGED <<javaPath, javaHome, commonJava, whereJava, java, depsRet, supVars>>
    /\ OtherThanLaunch

LDownloadMinecraft == LStep("download", "fabric_version", "download_minecraft")
LGetFabricLoader   == LStep("fabric_version", "fabric", "get_fabric_loader")
LDownloadFabric    == LStep("fabric", "mod", "download_fabric")
LInstallMod        == LStep("mod", "deps", "install_bundled_mod")

\* The resolver call with `?`: an Err, or a dependency left missing, ends the call
LResolveDeps_propagates ==
    /\ lpc = "deps"
    /\ ltrace' = Append(ltrace, "deps")
    /\ \E r \in DepsReturns :
         /\ r.installed \subseteq r.missing
         /\ depsRet' = r
         /\ IF r.ok /\ r.installed = r.missing
               THEN lpc' = "java" /\ UNCHANGED lresult
               ELSE LReturn("resolve_and_install_dependencies")
    /\ UNCHANGED <<javaPath, javaHome, commonJava, whereJava, java, supVars>>
    /\ OtherThanLaunch

\* `if let Ok(installed_deps) = resolve_and_install_dependencies(..).await { log }`
LResolveDeps ==
    /\ lpc = "deps"
    /\ ltrace' = Append(ltrace, "deps")
    /\ \E r \in DepsReturns : r.installed \subseteq r.missing /\ depsRet' = r
    /\ lpc' = "java"
    /\ UNCHANGED <<lresult, javaPath, javaHome, commonJava, whereJava, java, supVars>>
    /\ OtherThanLaunch

\* launch(): `let java = self.find_java().await?`
LFindJava ==
    /\ lpc = "java"
    /\ ltrace' = Append(ltrace, "java")
    /\ java' = find_java(javaHome, commonJava, whereJava)
    /\ IF java' = NoJava THEN LReturn("JavaNotFound")
                         ELSE lpc' = "assemble" /\ UNCHANGED lresult
    /\ UNCHANGED <<javaPath, javaHome, commonJava, whereJava, depsRet, supVars>>
    /\ OtherThanLaunch

\* launch(): build_classpath, the profile and version documents, the natives,
\* the argument vector
LAssemble ==
    /\ lpc = "assemble"
    /\ ltrace' = Append(ltrace, "assemble")
    /\ \E ok \in BOOLEAN :
         IF ok THEN lpc' = "spawn" /\ UNCHANGED lresult ELSE LReturn("assemble")
    /\ UNCHANGED <<javaPath, javaHome, commonJava, whereJava, java, depsRet, supVars>>
    /\ OtherThanLaunch

\* launch(): command.spawn(); then launch_game stores the child and spawns the
\* monitor task
LSpawn ==
    /\ lpc = "spawn"
    /\ ltrace' = Append(ltrace, "spawn")
    /\ \E ok \in BOOLEAN :
         IF ok
            THEN /\ \E p \in Pids :
                      /\ procs[p] = "unborn"
                      /\ \A q \in Pids : q < p => procs[q] # "unborn"
                      /\ procs' = [procs EXCEPT ![p] = "alive"]
                      /\ game_process' = p
                      /\ spc' = [spc EXCEPT ![p] = "sleep"]
                 /\ lpc' = "returned"
                 /\ lresult' = "Ok"
            ELSE /\ LReturn("LaunchFailed")
                 /\ UNCHANGED <<procs, game_process, spc>>
    /\ UNCHANGED <<javaPath, javaHome, commonJava, whereJava, java, depsRet,
                   supIdle, stopIdle, stops, auth_request, auth_response, pollers,
                   requests, reqLog>>
    /\ OtherThanLaunch

LaunchInit ==
    /\ lpc = "idle"
    /\ lresult = "none"
    /\ javaPath = "none"
    /\ javaHome \in BOOLEAN
    /\ commonJava \in SUBSET CommonPaths
    /\ whereJava \in BOOLEAN
    /\ java = NoJava
    /\ depsRet = "none"
    /\ ltrace = <<>>

LaunchNext ==
    \/ LaunchCall \/ LDownloadMinecraft \/ LGetFabricLoader \/ LDownloadFabric
    \/ LInstallMod \/ LResolveDeps \/ LFindJava \/ LAssemble \/ LSpawn

(***************************************************************************)
(*                         VERSION COMPARISON                              *)
(***************************************************************************)

\* Bounds: parts of a version string, and the largest number in a part.
MaxParts == 3
MaxPart == 2

\* A part that `part.parse::<u32>()` rejects (letters, empty, out of range)
NonNumeric == -1

\* Version strings, as what `v.split('.')` yields
Versions ==
    UNION {[1..n -> (0..MaxPart) \cup {NonNumeric}] : n \in 1..MaxParts}

\* The parse_version closure: the parts that parse, in order
RECURSIVE parse_version(_)
parse_version(v) ==
    IF v = <<>> THEN <<>>
    ELSE IF Head(v) = NonNumeric THEN parse_version(Tail(v))
    ELSE <<Head(v)>> \o parse_version(Tail(v))

\* `parts.get(i).copied().unwrap_or(0)`, with i counted from 1
get_or_zero(parts, i) == IF i <= Len(parts) THEN parts[i] ELSE 0

\* The comparison loop of is_newer_version from index i on
RECURSIVE newer_from(_, _, _)
newer_from(latest_parts, current_parts, i) ==
    IF i > Len(latest_parts) /\ i > Len(current_parts) THEN FALSE
    ELSE LET l == get_or_zero(latest_parts, i)
             c == get_or_zero(current_parts, i)
         IN IF l > c THEN TRUE
            ELSE IF l < c THEN FALSE
            ELSE newer_from(latest_parts, current_parts, i + 1)

\* is_newer_version whose loop falls through to true
is_newer_version_or_equal(l, c) ==
    parse_version(l) = parse_version(c) \/ newer_from(parse_version(l), parse_version(c), 1)

\* is_newer_version(latest, current)
is_newer_version(l, c) == newer_from(parse_version(l), parse_version(c), 1)

\* check_miracle_client_update compares the release's version with the client's
CompareVersions ==
    /\ ~compared
    /\ compared' = TRUE
    /\ newer' = is_newer_version(latest, current)
    /\ UNCHANGED <<latest, current>>
    /\ OtherThanVer

VerInit ==
    /\ latest \in Versions
    /\ current \in Versions
    /\ compared = FALSE
    /\ newer = FALSE

VerNext == CompareVersions

(***************************************************************************)
(*                           SPECIFICATIONS                                *)
(***************************************************************************)

DepIdle ==
    /\ mods = [f \in FileNames |-> NoFile]
    /\ dpc = "idle" /\ todo = {} /\ passInst = {} /\ allInst = {}
    /\ failedIds = {} /\ wire = <<>>
    /\ disabledMods = [f \in FileNames |-> NoFile]

AcqIdle ==
    /\ libraries = <<>> /\ fabricLibs = <<>>
    /\ disk = [p \in Paths |-> "absent"]
    /\ profileSaved = FALSE /\ qpc = "idle" /\ runs = 0 /\ libIdx = 1
    /\ fetched = {} /\ failedAt = NoPath /\ failErr = "none" /\ answers = {}
    /\ classpath = <<>>

AuthIdle ==
    /\ apc = "idle" /\ aresult = "none" /\ interval = 5 /\ wait = 0 /\ polls = 0
    /\ pendingRun = 0 /\ lastResp = NoResponse /\ hops = <<>> /\ msRefresh = ""
    /\ flow = "none" /\ token = "" /\ hopLog = <<>>
    /\ dresp = NoDeviceResponse /\ dresult = "none"

RuleIdle == rlib = Library(AsmBase, FALSE, FALSE, <<>>) /\ rres = "unset"

SupIdle == SupInit

VerIdle == latest = <<0>> /\ current = <<0>> /\ compared = FALSE /\ newer = FALSE

LaunchIdle ==
    /\ lpc = "idle" /\ lresult = "none" /\ javaPath = "none" /\ javaHome = FALSE
    /\ commonJava = {} /\ whereJava = FALSE /\ java = NoJava /\ depsRet = "none"
    /\ ltrace = <<>>

\* The dependency resolver alone
DepSpecInit ==
    DepInit /\ AcqIdle /\ platform = "windows" /\ AuthIdle /\ RuleIdle /\ SupIdle
    /\ LaunchIdle /\ VerIdle

DepSpec == DepSpecInit /\ [][DepNext]_vars

\* The dependency resolver, which keeps running while it has a step to take
FairDepSpec == DepSpec /\ WF_vars(DepNext)

\* The dependency resolver on a directory in which the user toggles mods
ToggleSpec == DepSpecInit /\ [][ToggleNext]_vars

\* The acquisition pipeline and classpath assembly alone
AcqSpecInit ==
    AcqInit /\ DepIdle /\ AuthIdle /\ RuleIdle /\ SupIdle /\ LaunchIdle /\ VerIdle

AcqSpec == AcqSpecInit /\ [][AcqNext]_vars

\* The authentication chain alone
AuthSpecInit ==
    AuthInit /\ DepIdle /\ AcqIdle /\ platform = "windows" /\ RuleIdle /\ SupIdle
    /\ LaunchIdle /\ VerIdle

AuthSpec == AuthSpecInit /\ [][AuthNext]_vars

\* should_use_library on every library entry and platform
RuleSpecInit ==
    RuleInit /\ platform \in RulePlatforms /\ DepIdle /\ AcqIdle /\ AuthIdle /\ SupIdle
    /\ LaunchIdle /\ VerIdle

RuleSpec == RuleSpecInit /\ [][RuleNext]_vars

\* The monitor tasks of the launched game processes, on either platform
SupSpecInit ==
    SupInit /\ platform \in Platforms /\ DepIdle /\ AcqIdle /\ AuthIdle /\ RuleIdle
    /\ LaunchIdle /\ VerIdle

SupSpec == SupSpecInit /\ [][SupNext]_vars

\* Every monitor task keeps running while it has a step to take
FairSupSpec == SupSpec /\ \A p \in Pids : WF_vars(SupStep(p))

\* One launch_game call after another, on every state of the machine's Java
\* installations
LaunchSpecInit ==
    LaunchInit /\ SupInit /\ platform = "windows" /\ DepIdle /\ AcqIdle /\ AuthIdle
    /\ RuleIdle /\ VerIdle

LaunchSpec == LaunchSpecInit /\ [][LaunchNext]_vars

\* is_newer_version on every pair of version strings
VerSpecInit ==
    VerInit /\ platform = "windows" /\ DepIdle /\ AcqIdle /\ AuthIdle /\ RuleIdle
    /\ SupIdle /\ LaunchIdle

VerSpec == VerSpecInit /\ [][VerNext]_vars

(***************************************************************************)
(*                               CLAIMS                                    *)
(***************************************************************************)

\* C1: resolve_and_install_dependencies terminates for every mods directory and
\* every registry behaviour: every call eventually returns.
C1_Terminates == <>(dpc = "done")

\* C2: install_dependency is never invoked for a package identifier that is in
\* the installed-identifier set at the moment of the invocation, also not for
\* one installed earlier in the same pass.
C2_NeverInstallsInstalled ==
    [][\A dep \in todo :
          (dpc = "loop" /\ todo' = todo \ {dep})
              => dep.mod_id \notin get_installed_mod_ids(mods)]_vars

Range(seq) == {seq[i] : i \in 1..Len(seq)}

\* download_minecraft has returned Ok(()) in the running acquisition
BaseAcquired == qpc \in {"fabric", "fablibs", "done", "launched"}

\* The paths with a declared hash that the model's version asks for on this
\* launcher: the client, the artifacts and natives of the libraries in use, the
\* asset index and the asset object
HashedPaths ==
    {ClientJar, AssetIndexPath, ObjectPath}
    \cup {ArtifactPath(libraries[i]) :
            i \in {j \in 1..Len(libraries) :
                     should_use_library(libraries[j]) /\ libraries[j].artifact}}
    \cup {NativePath(libraries[i]) :
            i \in {j \in 1..Len(libraries) :
                     should_use_library(libraries[j]) /\ libraries[j].native}}

\* C3: a file with a declared hash whose content does not match it is never
\* treated as present: an acquisition run that got past it has re-fetched it.
C3_WrongHashRefetched ==
    BaseAcquired => \A p \in HashedPaths : disk[p] = "bad" => p \in fetched

\* The libraries of the version that are allowed on Windows only
WindowsOnly ==
    {i \in 1..Len(libraries) :
        libraries[i].hasRules /\ libraries[i].rules = <<AllowWindows>>}

\* C4: an applicable base-runtime library that is on disk is left out of the
\* classpath only if a loader library with the same group:artifact key is on it.
C4_LoaderPrecedence ==
    qpc = "launched" =>
        \A i \in 1..Len(libraries) :
            LET lib == libraries[i] IN
            (/\ should_use_library(lib)
             /\ lib.artifact
             /\ Exists(disk, ArtifactPath(lib))
             /\ ArtifactPath(lib) \notin Range(classpath))
            => \E j \in 1..Len(fabricLibs) :
                   /\ get_artifact_key(fabricLibs[j]) = get_artifact_key(lib.name)
                   /\ maven_to_path(fabricLibs[j]) \in Range(classpath)

\* C9: applicability is evaluated against the platform the launcher runs on: on
\* a platform other than Windows a Windows-only library is neither downloaded
\* nor put on the classpath.
C9_RunningPlatform ==
    platform # "windows" =>
        \A i \in WindowsOnly :
            /\ ArtifactPath(libraries[i]) \notin fetched
            /\ NativePath(libraries[i]) \notin fetched
            /\ ArtifactPath(libraries[i]) \notin Range(classpath)

\* C10: a hash mismatch or transport failure on one base-runtime library (or its
\* native artifact) never makes the acquisition fail.
C10_LibraryFailureSkipped == failedAt \notin LibPaths

\* The AuthError values
AuthErrors == {"HttpError", "ParseError", "AuthFailed", "NoMinecraft", "Timeout",
               "Cancelled"}

\* C5: every run of the authentication chain ends in a session or in Failed(kind)
\* with an AuthError value, whatever any hop answers; it never aborts abnormally.
C5_NeverAborts ==
    apc \notin {"idle", "sleep", "xbox", "xsts", "minecraft", "profile"}
        => apc = "returned" /\ aresult \in {"Ok"} \cup AuthErrors

\* An error response of the provider: JSON or form-encoded, an error field and no
\* access token
IsErrorResponse(resp, error) ==
    resp.enc \in {"json", "form"} /\ ~resp.token /\ resp.error = error

\* C6: after n consecutive authorization_pending responses (JSON or form-encoded),
\* for every n, the poll loop has not returned and the next poll follows after the
\* unchanged provider interval.
C6_PendingKeepsPolling ==
    (flow = "device" /\ pendingRun = polls)
        => apc = "sleep" /\ aresult = "none" /\ wait = interval

C6_Witness ==
    /\ polls = MaxPolls /\ pendingRun = MaxPolls /\ apc = "sleep"
    /\ lastResp.enc = "form"

\* The outcome the contract gives a provider error that ends the loop
TerminalOutcome(error) ==
    CASE error = "expired_token"          -> "Timeout"
      [] error = "authorization_declined" -> "Cancelled"
      [] OTHER                            -> "AuthFailed"

\* C7: an error response with expired_token ends the poll loop with Timeout,
\* authorization_declined with Cancelled, any provider error other than
\* authorization_pending and slow_down with AuthFailed, the same for JSON and
\* form-encoded responses; after it no poll is sent and no hop is requested.
C7_TerminalErrors ==
    /\ [](\A e \in ProviderErrors \ {"authorization_pending", "slow_down"} :
            IsErrorResponse(lastResp, e)
                => apc = "returned" /\ aresult = TerminalOutcome(e) /\ hops = <<>>)
    /\ [][apc = "returned" => (polls' = polls /\ hops' = hops)]_vars

C7_Witness ==
    /\ IsErrorResponse(lastResp, "expired_token") /\ lastResp.enc = "form"
    /\ polls = 2 /\ aresult = "Timeout"

\* The contract of should_use(entry, platform): a rule matches when it has no OS
\* constraint or names the platform; the last matching rule decides; an entry
\* without rules is allowed, one whose rules all fail to match is denied.
RuleMatches(rule, plat) == ~rule.hasOs \/ rule.osName = plat

ShouldUseContract(lib, plat) ==
    LET matching == {i \in 1..Len(lib.rules) : RuleMatches(lib.rules[i], plat)}
        last == CHOOSE i \in matching : \A j \in matching : j <= i
    IN IF ~lib.hasRules \/ lib.rules = <<>> THEN TRUE
       ELSE IF matching = {} THEN FALSE
       ELSE lib.rules[last].action = "allow"

\* C8: should_use(entry, platform) equals the action of the last rule whose OS
\* constraint matches the platform, deny when rules exist and none matches,
\* allow when there are no rules.
C8_LastMatchWins ==
    rres # "unset" => ((rres = "true") <=> ShouldUseContract(rlib, platform))

\* C11: a hash mismatch on the downloaded runtime binary or on the downloaded
\* asset index makes the acquisition fail with DownloadFailed, no later step of
\* the run is taken, and the step that received the mismatching bytes leaves the
\* install directory as it was.
C11_HashMismatchFatal ==
    /\ [](\A p \in {ClientJar, AssetIndexPath} :
            <<p, "bad">> \in answers
                => qpc = "failed" /\ failedAt = p /\ failErr = "DownloadFailed")
    /\ [][\A p \in {ClientJar, AssetIndexPath} :
            (<<p, "bad">> \in answers' /\ <<p, "bad">> \notin answers)
                => disk' = disk]_vars

C11_Witness ==
    /\ <<ClientJar, "bad">> \in answers /\ disk[ClientJar] = "bad"
    /\ qpc = "failed" /\ failErr = "DownloadFailed"

\* C12: for each supervised process, once the process has exited its monitor
\* eventually emits the launch_state idle event (exactly once, then it stops).
C12_ExitReported ==
    \A p \in Pids : (procs[p] = "exited") ~> (supIdle[p] = 1 /\ spc[p] = "done")

\* C13: install_missing rejects a downloaded file below the minimum size as
\* corrupt: no step of the call writes such a file into the mods directory.
C13_SmallFileRejected ==
    [][\A f \in FileNames : mods'[f] # mods[f] => ~mods'[f].small]_vars

\* The Vec the outermost call returns: the ids pushed by all its passes
ReturnedInstalled == allInst \cup passInst

\* C14: when install_missing has returned with a dependency in its installed
\* list, a following resolve_dependencies on the directory reports no missing
\* entry for that dependency.
C14_InstalledNoLongerMissing ==
    dpc = "done"
        => \A dep \in resolve_dependencies(mods).missing_dependencies :
              dep.mod_id \notin ReturnedInstalled

\* The archives of a directory whose metadata parses
Parseable(dir) == {f \in FileNames : dir[f].present /\ dir[f].parses}

\* C15: resolve returns installed = the ids of all archives with parseable
\* metadata, and missing = exactly the (d, requirement) pairs some such archive
\* declares as required with d no pseudo-dependency and d not installed;
\* pseudo-dependencies and recommended dependencies never appear in missing.
C15_ResolveExact ==
    LET res == resolve_dependencies(mods)
        installed == {mods[f].id : f \in Parseable(mods)}
    IN /\ res.installed_mods = installed
       /\ \A d \in ModIds \cup PseudoIds, q \in Reqs :
             [mod_id |-> d, version_requirement |-> q] \in res.missing_dependencies
                <=> /\ \E f \in Parseable(mods) : <<d, q>> \in mods[f].depends
                    /\ d \notin PseudoIds
                    /\ d \notin installed
       /\ \A dep \in res.missing_dependencies :
             /\ dep.mod_id \in ModIds \ installed
             /\ dep.version_requirement \in Reqs

\* resolve has run on a directory whose archives declare a real missing
\* dependency, pseudo-dependencies and a recommended package that is absent
C15_Witness ==
    /\ dpc = "loop" /\ passInst = {} /\ allInst = {}
    /\ todo = resolve_dependencies(mods).missing_dependencies
    /\ todo = {[mod_id |-> "foo", version_requirement |-> ">=1.0"]}
    /\ \E f \in Parseable(mods) :
          /\ <<"minecraft", "*">> \in mods[f].depends
          /\ <<"bar", "*">> \in mods[f].recommends
    /\ "bar" \notin get_installed_mod_ids(mods)
    /\ \E f \in FileNames : mods[f] = Unparseable

\* C16: whenever the answer to the device-code request carries an error field,
\* as a JSON document or as a form body and whatever the HTTP status,
\* begin_device_flow returns AuthFailed (not a parse failure).
C16_ErrorFieldIsAuthFailed ==
    (dresult # "none" /\ dresp.enc \in {"json", "form"} /\ dresp.error)
        => dresult = "AuthFailed"

\* C17: every session returned by complete_device_flow or refresh carries a
\* non-empty refresh token, whatever optional fields the provider's token
\* response left out.  (The session's refresh_token is
\* ms_token.refresh_token.unwrap_or_default(), the value of msRefresh.)
C17_SessionHasRefreshToken == aresult = "Ok" => msRefresh # ""

\* The last hop requested and its answer
LastHop == IF hops = <<>> THEN <<"none", "none">>
           ELSE <<hops[Len(hops)], hopLog[Len(hopLog)][2]>>

\* C18: the chain fails with NoMinecraft exactly when the profile fetch answers
\* 404: a 404 there always gives NoMinecraft, no other answer at that hop and no
\* failure of another hop or of the poll loop does.
C18_NoMinecraftIff404 ==
    aresult = "NoMinecraft" <=> LastHop = <<"profile", "404">>

C18_Witness ==
    /\ aresult = "NoMinecraft" /\ LastHop = <<"profile", "404">>
    /\ flow = "device" /\ polls = 2

\* The hops of complete_authentication and the token each one is sent
ChainHops  == <<"xbox", "xsts", "minecraft", "profile">>
ChainInput == <<"ms", "xbl", "xsts", "mc">>

\* C19: the hops are requested in the order federation ticket, broker exchange,
\* game-service login, profile fetch, after the provider token, each with the
\* token the previous hop produced; no hop follows a failed one; a session is
\* returned only when all have succeeded; refresh sends no poll and runs the
\* same hops in the same order.
C19_HopOrder ==
    /\ Len(hops) <= 4 /\ Len(hopLog) = Len(hops)
    /\ \A i \in 1..Len(hops) :
          /\ hops[i] = ChainHops[i]
          /\ hopLog[i][1] = ChainInput[i]
          /\ i < Len(hops) => hopLog[i][2] = "ok"
    /\ hops # <<>> => IF flow = "device"
                         THEN polls >= 1 /\ handle_poll_response(lastResp) = Complete
                         ELSE flow = "refresh" /\ polls = 0
    /\ aresult = "Ok" => Len(hops) = 4 /\ \A i \in 1..4 : hopLog[i][2] = "ok"

C19_Witness ==
    /\ aresult = "Ok" /\ flow = "refresh" /\ hops = ChainHops

\* The artifact files of the requested version and loader on this platform
ArtifactFiles ==
    HashedPaths \cup {maven_to_path(fabricLibs[i]) : i \in 1..Len(fabricLibs)}

\* The install directory as a completed acquisition leaves it: every artifact
\* file is present, the runtime binary with its declared content
DirectoryComplete ==
    /\ \A p \in ArtifactFiles : disk[p] # "absent"
    /\ disk[ClientJar] = "good"

\* C20: an acquisition run (base version, then loader) on an install directory
\* that an earlier run left complete sends no artifact download request and
\* changes no artifact file: every skip decision finds its file present.
C20_RerunDownloadsNothing ==
    /\ [](qpc \in {"done", "launched"} => disk[ClientJar] = "good")
    /\ [][DirectoryComplete
            => (disk' = disk /\ answers' \subseteq answers /\ fetched' \subseteq fetched)]_vars

C20_Witness ==
    /\ runs = 2 /\ qpc = "launched" /\ DirectoryComplete
    /\ answers = {} /\ fetched = {}
    /\ \E p \in ArtifactFiles : disk[p] = "bad"

\* C21: the client JAR step always re-checks the file on disk. A file with the
\* declared content is left untouched and no request is sent; a file with other
\* content is requested again and, when the bytes that arrive have the declared
\* content, overwritten with them.
C21_ClientAlwaysReverified ==
    [][(qpc = "client" /\ qpc' # "client")
         => /\ disk[ClientJar] = "good"
                 => (disk' = disk /\ fetched' = fetched /\ answers' = answers
                     /\ qpc' = "libs")
            /\ disk[ClientJar] = "bad"
                 => /\ ClientJar \in fetched'
                    /\ \A p \in Paths \ {ClientJar} : disk'[p] = disk[p]
                    /\ <<ClientJar, "good">> \in answers'
                         => (disk'[ClientJar] = "good" /\ qpc' = "libs")
                    /\ <<ClientJar, "good">> \notin answers'
                         => (disk'[ClientJar] = "bad" /\ qpc' = "failed")]_vars

C21_Witness ==
    /\ runs = 1 /\ qpc = "libs"
    /\ disk[ClientJar] = "good" /\ ClientJar \notin fetched /\ answers = {}

\* The group:artifact key of a classpath entry under libraries/
EntryKey(path) == <<path[2], path[3]>>

\* The positions of the classpath that hold library entries
LibraryEntries == {i \in 1..Len(classpath) : classpath[i][1] = "libraries"}

\* C22: the assembled classpath never holds two library entries with the same
\* group:artifact key, whatever the version's libraries, the loader profile and
\* the files on disk are.
C22_ClasspathKeysUnique ==
    \A i, j \in LibraryEntries : EntryKey(classpath[i]) = EntryKey(classpath[j]) => i = j

C22_Witness ==
    /\ qpc = "launched" /\ profileSaved
    /\ Exists(disk, maven_to_path(AsmBase)) /\ Exists(disk, maven_to_path(AsmLoader))
    /\ maven_to_path(AsmLoader) \in Range(classpath)
    /\ maven_to_path(Lwjgl) \in Range(classpath)
    /\ C22_ClasspathKeysUnique

\* C23: within one pass a failed installation does not end the pass. While
\* dependencies of the pass remain, each step attempts exactly one of them and
\* the pass goes on, whatever the outcome; the pass is left only when none
\* remains; and the identifiers collected for the return value are exactly those
\* of the attempts that wrote a file.
C23_FailureDoesNotAbortPass ==
    [][/\ (dpc = "loop" /\ todo # {})
            => /\ dpc' = "loop"
               /\ todo' \subseteq todo
               /\ Cardinality(todo') = Cardinality(todo) - 1
               /\ allInst' = allInst
               /\ passInst \subseteq passInst'
               /\ passInst' \ passInst \subseteq {dep.mod_id : dep \in todo \ todo'}
               /\ mods' # mods => \E dep \in todo \ todo' : dep.mod_id \in passInst'
       /\ (dpc = "loop" /\ dpc' = "done")
            => (todo = {} /\ allInst' \cup passInst' = allInst \cup passInst)]_vars

C23_Witness ==
    /\ dpc = "loop" /\ passInst = {}
    /\ Cardinality(todo) = 1
    /\ Cardinality(resolve_dependencies(mods).missing_dependencies) = 2
    /\ todo \subseteq resolve_dependencies(mods).missing_dependencies

\* C24: whatever the dependency resolver hands back - Err, or Ok with any
\* subset of the missing dependencies installed - launch_game goes on to
\* launch(): the resolver step never ends the call, and no call returns an
\* error from it.
C24_DependencyFailureDoesNotAbortLaunch ==
    /\ [][lpc = "deps" => (lpc' = "java" /\ lresult' = "none")]_vars
    /\ [](lresult \notin {"none", "Ok"} => ltrace[Len(ltrace)] # "deps")

C24_Witness ==
    /\ lresult = "Ok" /\ game_process # 0 /\ procs[game_process] = "alive"
    /\ ~depsRet.ok
    /\ ltrace[Len(ltrace)] = "spawn"

\* The executable the lookup order of the launch contract yields: the configured
\* path, then the environment's installation, the well-known locations in
\* order, the system path lookup
ContractJava ==
    IF javaPath = "exists" THEN <<"configured">>
    ELSE find_java(javaHome, commonJava, whereJava)

\* C25: launch uses the first executable found in the order configured path,
\* well-known locations, system path lookup, and fails with JavaNotFound, before
\* any spawn and with the stored handle unchanged, exactly when none is found.
C25_RuntimeLookupOrder ==
    "java" \in Range(ltrace) =>
        /\ java = ContractJava
        /\ lresult = "JavaNotFound" <=> ContractJava = NoJava
        /\ lresult = "JavaNotFound" => "spawn" \notin Range(ltrace)

\* The directory without the archives whose metadata is missing or unreadable
WithoutUnparseable(dir) ==
    [f \in FileNames |-> IF dir[f].present /\ ~dir[f].parses THEN NoFile ELSE dir[f]]

\* C26: an archive without readable metadata changes nothing in what
\* get_installed_mod_ids and resolve_dependencies return: it is not in the
\* installed set, it contributes no required dependency, and the other
\* archives are processed as if it were not there.
C26_UnparseableArchiveExcluded ==
    /\ get_installed_mod_ids(mods) = get_installed_mod_ids(WithoutUnparseable(mods))
    /\ resolve_dependencies(mods) = resolve_dependencies(WithoutUnparseable(mods))
    /\ get_installed_mod_ids(mods) = {mods[f].id : f \in Parseable(mods)}
    /\ \A f \in Parseable(mods) : \A p \in mods[f].depends :
          p[1] \notin PseudoIds => ModDependency(p) \in all_required_deps(mods)

C26_Witness ==
    /\ dpc = "loop"
    /\ \E f \in FileNames : mods[f].present /\ ~mods[f].parses
    /\ \E f \in Parseable(mods) : mods[f].depends # {}
    /\ todo = resolve_dependencies(mods).missing_dependencies
    /\ C26_UnparseableArchiveExcluded

\* C27: on a mods directory without any archive resolve_dependencies returns an
\* empty missing set and an empty installed set (and so does it when the only
\* files are ones without readable metadata).
C27_EmptyDirectoryResolvesEmpty ==
    Parseable(mods) = {} =>
        resolve_dependencies(mods) = [missing_dependencies |-> {}, installed_mods |-> {}]

C27_Witness ==
    /\ \A f \in FileNames : mods[f] = NoFile
    /\ dpc = "done" /\ allInst = {} /\ passInst = {}
    /\ resolve_dependencies(mods).installed_mods = {}

\* parts padded with zeros to length n
Padded(parts, n) == [i \in 1..n |-> IF i <= Len(parts) THEN parts[i] ELSE 0]

\* a is lexicographically greater than b (sequences of one length)
LexGreater(a, b) ==
    \E i \in 1..Len(a) : a[i] > b[i] /\ \A j \in 1..(i - 1) : a[j] = b[j]

\* latest's numeric components are lexicographically greater than current's,
\* missing components read as 0
NumericallyGreater(l, c) ==
    LET lp == SelectSeq(l, LAMBDA x : x # NonNumeric)
        cp == SelectSeq(c, LAMBDA x : x # NonNumeric)
        n  == IF Len(lp) > Len(cp) THEN Len(lp) ELSE Len(cp)
    IN LexGreater(Padded(lp, n), Padded(cp, n))

\* C28: is_newer_version(latest, current) is true exactly when latest's numeric
\* components are lexicographically greater than current's, missing components
\* read as 0; it is false for equal versions and never true in both directions.
C28_NewerIsStrictOrder ==
    compared =>
        /\ newer = NumericallyGreater(latest, current)
        /\ latest = current => newer = FALSE
        /\ ~(newer /\ is_newer_version(current, latest))
        /\ ~is_newer_version(latest, latest)

C28_Witness ==
    /\ compared /\ newer
    /\ Len(latest) < Len(current)
    /\ \E i \in 1..Len(current) : current[i] = NonNumeric

\* C30: in every interleaving of launches, monitor iterations and stop_game
\* calls, a launched game process that is alive is the one the stored
\* game_process handle refers to, so that stop_game terminates it.
C30_HandleRefersToLiveProcess ==
    \A p \in Pids : procs[p] = "alive" => game_process = p

\* C29: at most one launcher-side authentication flow started for the game is
\* outstanding at any time: there are never two background poll tasks that both
\* write the response file.
C29_OneOutstandingFlow == pollers <= 1

\* C31: launch_state idle is emitted once per launched process: a stop_game
\* that killed a process and the monitor of that process do not both emit it.
C31_IdleOncePerProcess ==
    \A p \in Pids : supIdle[p] + stopIdle[p] <= 1

\* C32: one request file written by the game starts at most one device-code
\* flow, however many monitor iterations follow.
C32_RequestConsumedOnce ==
    \A i \in 1..MaxRequests : flows[i] <= 1

\* C33: every request the monitor consumes is answered: the step that handles
\* a request it has read writes a response file for it, whatever the content of
\* the request.
C33_ConsumedRequestAnswered ==
    [][\A p \in Pids : (spc[p] = "handle" /\ spc'[p] = "check")
          => responses' = responses + 1]_vars

\* C34: within one call a package whose install attempt failed is not attempted
\* again, in the same pass or in a later pass of the recursion.
C34_FailedNotRetried ==
    [][dpc = "loop" => \A dep \in todo \ todo' : dep.mod_id \notin failedIds]_vars

\* C35: every registry request is preceded by the inter-request delay: nothing
\* is sent at the start of a call before a delay, and no two requests are sent
\* without a delay between them.
C35_DelayBeforeEveryRequest ==
    \A i \in 1..Len(wire) :
        wire[i] # "delay" => (i > 1 /\ wire[i - 1] = "delay")

\* The steps of launch_game in program order
LaunchOrder ==
    <<"download", "fabric_version", "fabric", "mod", "deps", "java", "assemble", "spawn">>

\* The errors of base acquisition and loader install
AcquisitionErrors == {"download_minecraft", "get_fabric_loader", "download_fabric"}

\* C36: in launch_game the resolver runs only after base acquisition, loader
\* install and mod install have returned successfully, and it has returned
\* before launch() looks for Java, assembles the classpath and spawns; when
\* base acquisition or loader install fails, neither the resolver nor launch()
\* runs and the call returns that error.
C36_ResolverAfterLoaderBeforeLaunch ==
    /\ Len(ltrace) <= Len(LaunchOrder)
    /\ ltrace = SubSeq(LaunchOrder, 1, Len(ltrace))
    /\ lresult \in AcquisitionErrors
          => /\ lpc = "returned"
             /\ Len(ltrace) = CASE lresult = "download_minecraft" -> 1
                                [] lresult = "get_fabric_loader" -> 2
                                [] lresult = "download_fabric" -> 3
             /\ Range(ltrace) \cap {"deps", "java", "assemble", "spawn"} = {}
    /\ lpc \in {"java", "assemble", "spawn"} => "deps" \in Range(ltrace)

C36_Witness ==
    /\ lresult = "Ok" /\ ltrace = LaunchOrder
    /\ depsRet.ok /\ depsRet.installed # {} /\ depsRet.installed # depsRet.missing
    /\ game_process # 0

\* The steps of acquisition in the order of the contract: manifest, runtime
\* binary, libraries, assets (index, objects), loader (profile, libraries)
AcquisitionOrder ==
    <<"details", "client", "libs", "index", "objects", "fabric", "fablibs", "done">>

\* The step that downloads a path
StepOf(p) ==
    CASE p = ClientJar -> "client"
      [] p \in LibPaths -> "libs"
      [] p = AssetIndexPath -> "index"
      [] p = ObjectPath -> "objects"
      [] p \in FabricPaths -> "fablibs"

\* C37: acquisition runs its steps strictly in the order manifest, runtime
\* binary, libraries, assets, loader: the position moves only to the next step
\* of the order or to failure, a file is requested and written only by the step
\* it belongs to, and after a fatal failure nothing is requested or written
\* until a new run starts.
C37_StepsInOrder ==
    [][/\ qpc' # qpc =>
            \/ \E i \in 1..(Len(AcquisitionOrder) - 1) :
                    qpc = AcquisitionOrder[i] /\ qpc' = AcquisitionOrder[i + 1]
            \/ qpc \in Range(AcquisitionOrder) /\ qpc' = "failed"
            \/ qpc = "done" /\ qpc' = "launched"
            \/ qpc \in {"idle", "launched", "failed"} /\ qpc' = "details"
       /\ \A p \in Paths :
            (disk'[p] # disk[p] \/ p \in fetched' \ fetched) => qpc = StepOf(p)
       /\ qpc = "failed" => (disk' = disk /\ fetched' = {} /\ qpc' = "details")]_vars

C37_Witness ==
    /\ runs = 1 /\ qpc = "done"
    /\ {ClientJar, AssetIndexPath, ObjectPath} \cup FabricPaths \subseteq fetched
    /\ maven_to_path(AsmBase) \in fetched
    /\ \A p \in fetched : disk[p] = "good"

\* A poll response the loop reads as the provider error `e`
ReadAsError(resp, e) ==
    /\ resp.error = e
    /\ resp.enc \in {"json", "form"}
    /\ ~(resp.enc = "json" /\ resp.token)

\* C38: on slow_down the poll loop keeps polling and the next poll waits the
\* provider interval plus exactly one extra increment of 5 s; the extra wait
\* is not kept: the poll after an authorization_pending waits the provider
\* interval only, and the interval itself never changes.
C38_SlowDownOneExtraWait ==
    [][(apc = "sleep" /\ polls' = polls + 1) =>
          /\ interval' = interval
          /\ ReadAsError(lastResp', "slow_down") =>
                (apc' = "sleep" /\ wait' = interval + SlowDownExtra)
          /\ ReadAsError(lastResp', "authorization_pending") =>
                (apc' = "sleep" /\ wait' = interval)]_vars

C38_Witness ==
    /\ apc = "sleep" /\ polls = 2 /\ pendingRun = 0
    /\ ReadAsError(lastResp, "authorization_pending")
    /\ wait = interval

\* C39: a failed download of a loader library does not abort download_fabric:
\* the loop goes on with the next loader library and the function returns Ok
\* after the last one, whatever the downloads were answered; a failure to
\* fetch or to write the loader profile ends the run with that error before
\* any loader library is requested.
C39_LoaderLibraryFailureTolerated ==
    /\ [](qpc = "done" => (libIdx > Len(fabricLibs) /\ profileSaved))
    /\ [][/\ qpc = "fablibs" =>
                /\ qpc' \in {"fablibs", "done"}
                /\ failedAt' = failedAt /\ failErr' = failErr
                /\ libIdx' # libIdx => libIdx' = libIdx + 1
          /\ (qpc = "fabric" /\ qpc' # "fablibs" /\ qpc' # qpc) =>
                /\ qpc' = "failed"
                /\ failedAt' = <<"fabric profile">>
                /\ failErr' \in {"HttpError", "IoError"}
                /\ fetched' = fetched]_vars

\* The first loader library could not be downloaded, a later one was, and
\* download_fabric returned Ok
C39_Witness ==
    /\ qpc = "done" /\ runs = 1
    /\ \E i, j \in 1..Len(fabricLibs) :
         /\ i < j
         /\ maven_to_path(fabricLibs[i]) \in fetched
         /\ disk[maven_to_path(fabricLibs[i])] = "absent"
         /\ maven_to_path(fabricLibs[j]) \in fetched
         /\ disk[maven_to_path(fabricLibs[j])] = "good"

\* C40: an archive disabled with toggle_mod still counts as present: its
\* package id is not among the missing dependencies the resolver sets out to
\* install, and the resolver installs no enabled copy of it.
C40_DisabledCountsPresent ==
    \A f \in FileNames :
        parse_mod_metadata_ok(disabledMods[f]) =>
            /\ disabledMods[f].id \notin {dep.mod_id : dep \in todo}
            /\ disabledMods[f].id \notin passInst \cup allInst

\* The resolver downloaded an enabled copy of a package whose archive lies
\* disabled in the directory
C40_SecondCopyInstalled ==
    \E f, g \in FileNames :
        /\ parse_mod_metadata_ok(disabledMods[f])
        /\ disabledMods[f].id \in passInst \cup allInst
        /\ parse_mod_metadata_ok(mods[g])
        /\ mods[g].id = disabledMods[f].id

====
